---- MODULE Spec2Model ----
(***************************************************************************)
(* The KiCad S-expression codec of kicad_files: the hand-written Layer     *)
(* codec of board/pcb.rs (Layer::from_str, Layer::to_string) on character  *)
(* sequences, and the record schemas that board/pcb.rs, board/graphic and  *)
(* symbol_lib.rs declare for the derive-driven serde_sexpr mapper.         *)
(* A text is a sequence of one-character strings.                          *)
(***************************************************************************)
EXTENDS Integers, Sequences, FiniteSets, TLC

VARIABLES cur, hist

vars == <<cur, hist>>

(* ------------------------------ bounds --------------------------------- *)

\* longest name / user string of a Layer value drawn as an input
MaxStr == 2
\* most operations applied to one input
MaxSteps == 2
\* most elements of a drawn sequence (LayersList.layers, PCB.pcb_content)
MaxSeq == 2

(* ------------------------------ strings -------------------------------- *)

Quote == "\""
Space == " "

\* the characters a drawn name or user string is made of
Chars == {"a", Quote, Space}

RECURSIVE StringsUpTo(_)
StringsUpTo(n) ==
  IF n = 0 THEN {<<>>}
  ELSE LET shorter == StringsUpTo(n - 1)
       IN  shorter \cup {Append(s, c) : s \in shorter, c \in Chars}

RECURSIVE Concat(_)
\* the concatenation of a sequence of texts
Concat(parts) ==
  IF parts = <<>> THEN <<>> ELSE Head(parts) \o Concat(Tail(parts))

RECURSIVE Join(_)
\* the atoms of a list, separated by one space
Join(atoms) ==
  IF atoms = <<>> THEN <<>>
  ELSE IF Len(atoms) = 1 THEN atoms[1]
  ELSE atoms[1] \o <<Space>> \o Join(Tail(atoms))

\* a replace that removes nothing
RemoveQuotes_Keep(s) == s

\* str::replace("\"", ""): every quote character removed
RECURSIVE RemoveQuotes(_)
RemoveQuotes(s) ==
  IF s = <<>> THEN <<>>
  ELSE IF Head(s) = Quote THEN RemoveQuotes(Tail(s))
  ELSE <<Head(s)>> \o RemoveQuotes(Tail(s))

(* ------------------------------ numbers -------------------------------- *)

Digits == <<"0", "1", "2", "3", "4", "5", "6", "7", "8", "9">>

DigitSet == {Digits[i] : i \in 1..10}

DigitVal(c) == (CHOOSE i \in 1..10 : Digits[i] = c) - 1

RECURSIVE FormatU32(_)
\* Display of a u32: its decimal digits, no sign, no leading zero
FormatU32(n) ==
  IF n < 10 THEN <<Digits[n + 1]>>
  ELSE FormatU32(n \div 10) \o <<Digits[(n % 10) + 1]>>

RECURSIVE DigitsValue(_)
DigitsValue(s) ==
  IF s = <<>> THEN 0
  ELSE 10 * DigitsValue(SubSeq(s, 1, Len(s) - 1)) + DigitVal(s[Len(s)])

\* the digits of an atom read as a u32: one leading "+" is accepted
Unsigned(atom) ==
  IF atom # <<>> /\ Head(atom) = "+" THEN Tail(atom) ELSE atom

RECURSIVE StripZeros(_)
StripZeros(d) ==
  IF Len(d) > 1 /\ Head(d) = "0" THEN StripZeros(Tail(d)) ELSE d

\* the digits of u32::MAX, 4294967295
U32MaxDigits == <<"4", "2", "9", "4", "9", "6", "7", "2", "9", "5">>

RECURSIVE DigitsLeq(_, _)
\* a <= b for digit sequences of one length
DigitsLeq(a, b) ==
  IF a = <<>> THEN TRUE
  ELSE IF DigitVal(Head(a)) # DigitVal(Head(b)) THEN DigitVal(Head(a)) < DigitVal(Head(b))
  ELSE DigitsLeq(Tail(a), Tail(b))

FitsU32(d) ==
  LET z == StripZeros(d)
  IN  \/ Len(z) < Len(U32MaxDigits)
      \/ Len(z) = Len(U32MaxDigits) /\ DigitsLeq(z, U32MaxDigits)

IsU32(atom) ==
  LET d == Unsigned(atom)
  IN  /\ d # <<>>
      /\ \A i \in 1..Len(d) : d[i] \in DigitSet
      /\ FitsU32(d)

ParseU32(atom) == DigitsValue(Unsigned(atom))

(* ------------------------------ LayerType ------------------------------ *)

LayerTypes == {"User", "Signal", "Jumper", "Mixed", "Power"}

\* impl fmt::Display for LayerType
LayerType_fmt(t) ==
  CASE t = "User"   -> <<"u", "s", "e", "r">>
    [] t = "Signal" -> <<"s", "i", "g", "n", "a", "l">>
    [] t = "Jumper" -> <<"j", "u", "m", "p", "e", "r">>
    [] t = "Mixed"  -> <<"m", "i", "x", "e", "d">>
    [] t = "Power"  -> <<"p", "o", "w", "e", "r">>

\* impl Default for LayerType
LayerType_default == "User"

\* a match that falls back to Signal, not to the default variant
LayerType_match4_NoDefault(atom) ==
  CASE atom = <<"u", "s", "e", "r">>           -> "User"
    [] atom = <<"j", "u", "m", "p", "e", "r">> -> "Jumper"
    [] atom = <<"m", "i", "x", "e", "d">>      -> "Mixed"
    [] atom = <<"p", "o", "w", "e", "r">>      -> "Power"
    [] OTHER                                   -> "Signal"

\* the match on layer_tuple.2.as_str() in the four-element branch
LayerType_match4(atom) ==
  CASE atom = <<"u", "s", "e", "r">>           -> "User"
    [] atom = <<"s", "i", "g", "n", "a", "l">> -> "Signal"
    [] atom = <<"j", "u", "m", "p", "e", "r">> -> "Jumper"
    [] atom = <<"m", "i", "x", "e", "d">>      -> "Mixed"
    [] atom = <<"p", "o", "w", "e", "r">>      -> "Power"
    [] OTHER                                   -> LayerType_default

\* the match on layer_tuple.2.as_str() in the three-element branch
LayerType_match3(atom) ==
  CASE atom = <<"u", "s", "e", "r">>           -> "User"
    [] atom = <<"s", "i", "g", "n", "a", "l">> -> "Signal"
    [] atom = <<"j", "u", "m", "p", "e", "r">> -> "Jumper"
    [] atom = <<"m", "i", "x", "e", "d">>      -> "Mixed"
    [] atom = <<"p", "o", "w", "e", "r">>      -> "Power"
    [] OTHER                                   -> LayerType_default

(* --------------------------- the tuple reader --------------------------- *)

RECURSIVE Split(_, _)
\* the atoms of the inside of a list: maximal runs of characters that are
\* not whitespace; a quote is an ordinary character of an atom
Split(s, atom) ==
  IF s = <<>> THEN (IF atom = <<>> THEN <<>> ELSE <<atom>>)
  ELSE IF Head(s) = Space
       THEN (IF atom = <<>> THEN <<>> ELSE <<atom>>) \o Split(Tail(s), <<>>)
       ELSE Split(Tail(s), Append(atom, Head(s)))

IsFlatList(text) ==
  /\ Len(text) >= 2
  /\ text[1] = "("
  /\ text[Len(text)] = ")"
  /\ \A i \in 2..(Len(text) - 1) : text[i] \notin {"(", ")"}

Atoms(text) == Split(SubSeq(text, 2, Len(text) - 1), <<>>)

\* serde_sexpr_base::from_str::<(u32, String, ...)> with `arity` elements:
\* the elements are read in turn, then the list must be at its end
TupleFromStr(text, arity) ==
  IF ~IsFlatList(text) THEN [ok |-> FALSE, reason |-> "syntax", arity |-> arity]
  ELSE LET atoms == Atoms(text)
       IN  IF atoms # <<>> /\ ~IsU32(atoms[1])
             THEN [ok |-> FALSE, reason |-> "invalid_number", arity |-> arity]
           ELSE IF Len(atoms) < arity
             THEN [ok |-> FALSE, reason |-> "invalid_length", arity |-> arity]
           ELSE IF Len(atoms) > arity
             THEN [ok |-> FALSE, reason |-> "trailing_elements", arity |-> arity]
           ELSE [ok |-> TRUE, tuple |-> atoms]

(* -------------------------------- Layer -------------------------------- *)

\* user is <<>> for None and <<s>> for Some(s)
Layer(number, name, layer_type, user) ==
  [number |-> number, name |-> name, layer_type |-> layer_type, user |-> user]

\* impl FromStr for Layer
Layer_from_str(s) ==
  LET four == TupleFromStr(s, 4)
  IN  IF four.ok
      THEN [ok |-> TRUE,
            val |-> Layer(ParseU32(four.tuple[1]),
                          RemoveQuotes(four.tuple[2]),
                          LayerType_match4(four.tuple[3]),
                          <<four.tuple[4]>>)]
      ELSE LET three == TupleFromStr(s, 3)
           IN  IF three.ok
               THEN [ok |-> TRUE,
                     val |-> Layer(ParseU32(three.tuple[1]),
                                   RemoveQuotes(three.tuple[2]),
                                   LayerType_match3(three.tuple[3]),
                                   <<>>)]
               ELSE [ok |-> FALSE,
                     err |-> <<[arity |-> three.arity, reason |-> three.reason]>>]

\* a to_string that writes the layer type before the name
Layer_to_string_TypeFirst(l) ==
  IF l.user # <<>>
  THEN Concat(<<<<"(">>, FormatU32(l.number), <<Space>>, LayerType_fmt(l.layer_type),
                <<Space, Quote>>, l.name, <<Quote, Space>>, l.user[1], <<")">>>>)
  ELSE Concat(<<<<"(">>, FormatU32(l.number), <<Space>>, LayerType_fmt(l.layer_type),
                <<Space, Quote>>, l.name, <<Quote>>, <<")">>>>)

\* impl ToString for Layer
Layer_to_string(l) ==
  IF l.user # <<>>
  THEN Concat(<<<<"(">>, FormatU32(l.number), <<Space, Quote>>, l.name,
                <<Quote, Space>>, LayerType_fmt(l.layer_type), <<Space>>,
                l.user[1], <<")">>>>)
  ELSE Concat(<<<<"(">>, FormatU32(l.number), <<Space, Quote>>, l.name,
                <<Quote, Space>>, LayerType_fmt(l.layer_type), <<")">>>>)

(* ----------------------------- generic tree ----------------------------- *)

\* a node is an atom or a list of nodes; a tagged list starts with its tag atom
A(x) == [atom |-> x]
L(kids) == [list |-> kids]
IsAtom(n) == DOMAIN n = {"atom"}
IsList(n) == DOMAIN n = {"list"}

\* the tag of a list, "" when it has none
TagOf(n) ==
  IF IsList(n) /\ n.list # <<>> /\ IsAtom(n.list[1]) THEN n.list[1].atom ELSE ""

(* ------------------------------- schemas -------------------------------- *)

\* a field binding: kind is "positional", "tuple" (keyed, payload kept as
\* written), "option" (keyed, absent = None = <<>>), "uuid" (keyed identifier,
\* absent = nil), "record" (keyed nested record), "seq" (repeated untagged
\* records of one schema) or "union_seq" (repeated union values)
Field(name, key, kind, elem, skip) ==
  [name |-> name, key |-> key, kind |-> kind, elem |-> elem, skip |-> skip]

\* a Segment whose tstamp lacks skip_serializing_if
SegmentFields_NoSkip ==
  <<Field("start", "start", "tuple", "", FALSE),
    Field("end", "end", "tuple", "", FALSE),
    Field("width", "width", "tuple", "", FALSE),
    Field("layer", "layer", "tuple", "", FALSE),
    Field("net", "net", "tuple", "", FALSE),
    Field("tstamp", "tstamp", "uuid", "", FALSE)>>

\* pub struct Segment
SegmentFields ==
  <<Field("start", "start", "tuple", "", FALSE),
    Field("end", "end", "tuple", "", FALSE),
    Field("width", "width", "tuple", "", FALSE),
    Field("layer", "layer", "tuple", "", FALSE),
    Field("net", "net", "tuple", "", FALSE),
    Field("tstamp", "tstamp", "uuid", "", TRUE)>>

\* pub struct Curve
CurveFields ==
  <<Field("pts", "pts", "tuple", "", FALSE),
    Field("layer", "layer", "option", "", TRUE),
    Field("width", "width", "tuple", "", FALSE),
    Field("tstamp", "tstamp", "uuid", "", TRUE)>>

\* pub struct General
GeneralFields ==
  <<Field("thickness", "thickness", "tuple", "", FALSE),
    Field("drawings", "drawings", "option", "", TRUE),
    Field("tracks", "tracks", "option", "", TRUE),
    Field("zones", "zones", "option", "", TRUE),
    Field("modules", "modules", "option", "", TRUE),
    Field("nets", "nets", "option", "", TRUE)>>

\* pub struct Version(u32), of board/pcb.rs and of symbol_lib.rs
VersionFields == <<Field("0", "", "positional", "", FALSE)>>

\* pub struct Net
NetFields ==
  <<Field("number", "", "positional", "", FALSE),
    Field("name", "", "positional", "", FALSE)>>

\* pub struct Layer, as the derive sees it
LayerFields ==
  <<Field("number", "", "positional", "", FALSE),
    Field("name", "", "positional", "", FALSE),
    Field("layer_type", "", "positional", "", FALSE),
    Field("user", "user", "option", "", TRUE)>>

\* pub struct LayersList
LayersListFields == <<Field("layers", "", "seq", "Layer", FALSE)>>

\* pub struct SymbolLib
SymbolLibFields ==
  <<Field("version", "version", "record", "SymbolLibVersion", FALSE),
    Field("generator", "generator", "tuple", "", FALSE)>>

\* the circle of the pcb_content test, the one graphic item the sources show
CircleFields ==
  <<Field("center", "center", "tuple", "", FALSE),
    Field("end", "end", "tuple", "", FALSE),
    Field("layer", "layer", "option", "", TRUE),
    Field("width", "width", "tuple", "", FALSE),
    Field("fill", "fill", "option", "", TRUE),
    Field("tstamp", "tstamp", "uuid", "", TRUE)>>

\* pub struct PCB
PCBFields ==
  <<Field("version", "version", "record", "Version", FALSE),
    Field("generator", "generator", "tuple", "", FALSE),
    Field("general", "general", "record", "General", FALSE),
    Field("page", "paper", "tuple", "", FALSE),
    Field("title_block", "title_block", "tuple", "", FALSE),
    Field("pcb_content", "", "union_seq", "PCBContent", FALSE)>>

Schemas ==
  {"Segment", "Curve", "General", "Version", "SymbolLibVersion", "Net", "Layer",
   "LayersList", "SymbolLib", "Circle", "PCB"}

Fields(schema) ==
  CASE schema = "Segment"          -> SegmentFields
    [] schema = "Curve"            -> CurveFields
    [] schema = "General"          -> GeneralFields
    [] schema = "Version"          -> VersionFields
    [] schema = "SymbolLibVersion" -> VersionFields
    [] schema = "Net"              -> NetFields
    [] schema = "Layer"            -> LayerFields
    [] schema = "LayersList"       -> LayersListFields
    [] schema = "SymbolLib"        -> SymbolLibFields
    [] schema = "Circle"           -> CircleFields
    [] schema = "PCB"              -> PCBFields

\* #[serde(rename = "...")] of each struct
Tag(schema) ==
  CASE schema = "Segment"          -> "segment"
    [] schema = "Curve"            -> "fp_curve"
    [] schema = "General"          -> "general"
    [] schema = "Version"          -> "version"
    [] schema = "SymbolLibVersion" -> "version"
    [] schema = "Net"              -> "net"
    [] schema = "Layer"            -> ""
    [] schema = "LayersList"       -> "layers"
    [] schema = "SymbolLib"        -> "kicad_symbol_lib"
    [] schema = "Circle"           -> "gr_circle"
    [] schema = "PCB"              -> "kicad_pcb"

\* the structs that carry #[serde(deny_unknown_fields)]
DenyUnknownFields == {"Segment", "Curve", "Version", "SymbolLibVersion", "SymbolLib"}

\* unknown children are rejected where deny_unknown_fields is set and
\* ignored where it is not
Strict(schema) == schema \in DenyUnknownFields

\* untagged! enum PCBContent: its candidates, in declaration order
PCBContent == <<"LayersList", "Net", "Circle">>

(* ------------------------------ identifiers ----------------------------- *)

\* the texts of the nil identifier and of one other identifier
UuidTexts ==
  <<"\"00000000-0000-0000-0000-000000000000\"",
    "\"00000000-0000-0000-0000-000000000001\"">>

NilUuid == 0

IsUuidText(x) == \E i \in 1..Len(UuidTexts) : UuidTexts[i] = x
UuidDecode(x) == (CHOOSE i \in 1..Len(UuidTexts) : UuidTexts[i] = x) - 1
UuidEncode(u) == UuidTexts[u + 1]

\* crate::skip_uuid, the skip_serializing_if of every tstamp
skip_uuid(u) == u = NilUuid

(* ----------------------------- record mapper ---------------------------- *)

Ok(v, rest) == [ok |-> TRUE, val |-> v, rest |-> rest]
Err(kind, reasons) == [ok |-> FALSE, err |-> kind, reasons |-> reasons]

\* the first child of rest that is a list tagged key, 0 when there is none
FindKey(rest, key) ==
  IF \E i \in 1..Len(rest) : IsList(rest[i]) /\ TagOf(rest[i]) = key
  THEN CHOOSE i \in 1..Len(rest) :
         /\ IsList(rest[i]) /\ TagOf(rest[i]) = key
         /\ \A j \in 1..(i - 1) : ~(IsList(rest[j]) /\ TagOf(rest[j]) = key)
  ELSE 0

Without(rest, i) == SubSeq(rest, 1, i - 1) \o SubSeq(rest, i + 1, Len(rest))

RECURSIVE decode_record(_, _)
RECURSIVE DecodeFields(_, _, _)
RECURSIVE decode_union(_, _, _, _)
RECURSIVE decode_homogeneous(_, _, _, _)
RECURSIVE decode_heterogeneous(_, _, _)

\* one field against the remaining children
DecodeField(f, rest) ==
  IF f.kind = "positional" THEN
    IF rest = <<>> THEN Err("MissingField", <<>>)
    ELSE IF ~IsAtom(rest[1]) THEN Err("ScalarDecodeError", <<>>)
    ELSE Ok(rest[1].atom, Tail(rest))
  ELSE IF f.kind = "seq" THEN decode_homogeneous(rest, f.elem, <<>>, <<>>)
  ELSE IF f.kind = "union_seq" THEN decode_heterogeneous(rest, PCBContent, <<>>)
  ELSE LET i == FindKey(rest, f.key)
       IN  IF i = 0 THEN
             (IF f.kind = "option" THEN Ok(<<>>, rest)
              ELSE IF f.kind = "uuid" THEN Ok(NilUuid, rest)
              ELSE Err("MissingField", <<>>))
           ELSE LET payload == Tail(rest[i].list)
                IN  IF f.kind = "tuple" THEN Ok(payload, Without(rest, i))
                    ELSE IF f.kind = "option" THEN Ok(<<payload>>, Without(rest, i))
                    ELSE IF f.kind = "uuid" THEN
                      (IF Len(payload) = 1 /\ IsAtom(payload[1]) /\ IsUuidText(payload[1].atom)
                       THEN Ok(UuidDecode(payload[1].atom), Without(rest, i))
                       ELSE Err("ScalarDecodeError", <<>>))
                    ELSE LET r == decode_record(rest[i], f.elem)
                         IN  IF r.ok THEN Ok(r.val, Without(rest, i)) ELSE r

DecodeFields(fields, rest, acc) ==
  IF fields = <<>> THEN Ok(acc, rest)
  ELSE LET f == Head(fields)
           r == DecodeField(f, rest)
       IN  IF r.ok THEN DecodeFields(Tail(fields), r.rest, acc @@ (f.name :> r.val))
           ELSE r

\* decode_record(List, schema)
decode_record(node, schema) ==
  IF ~IsList(node) THEN Err("TagMismatch", <<>>)
  ELSE IF Tag(schema) # "" /\ TagOf(node) # Tag(schema) THEN Err("TagMismatch", <<>>)
  ELSE LET rest == IF Tag(schema) = "" THEN node.list ELSE Tail(node.list)
           r == DecodeFields(Fields(schema), rest, <<>>)
       IN  IF ~r.ok THEN r
           ELSE IF r.rest # <<>> /\ Strict(schema) THEN Err("UnknownField", <<>>)
           ELSE Ok(r.val, <<>>)

\* a resolver that passes over the candidate after a failed one
decode_union_SkipNext(node, candidates, i, reasons) ==
  IF i > Len(candidates) THEN Err("NoMatchingVariant", reasons)
  ELSE LET r == decode_record(node, candidates[i])
       IN  IF r.ok THEN Ok([variant |-> i, val |-> r.val], <<>>)
           ELSE decode_union(node, candidates, i + 2,
                             Append(reasons, [variant |-> i, err |-> r.err]))

\* decode_union(List, [schema_1 .. schema_n]): candidates from index i on,
\* reasons the failures of the candidates already tried
decode_union(node, candidates, i, reasons) ==
  IF i > Len(candidates) THEN Err("NoMatchingVariant", reasons)
  ELSE LET r == decode_record(node, candidates[i])
       IN  IF r.ok THEN Ok([variant |-> i, val |-> r.val], <<>>)
           ELSE decode_union(node, candidates, i + 1,
                             Append(reasons, [variant |-> i, err |-> r.err]))

\* a collector that puts each new element in front of the earlier ones
decode_homogeneous_Prepend(rest, elem, got, left) ==
  IF rest = <<>> THEN Ok(got, left)
  ELSE LET r == decode_record(Head(rest), elem)
       IN  IF r.ok THEN decode_homogeneous(Tail(rest), elem, <<r.val>> \o got, left)
           ELSE decode_homogeneous(Tail(rest), elem, got, Append(left, Head(rest)))

\* decode_homogeneous: every child that decodes as elem, in document order;
\* the children that do not are left to the rest of the record
decode_homogeneous(rest, elem, got, left) ==
  IF rest = <<>> THEN Ok(got, left)
  ELSE LET r == decode_record(Head(rest), elem)
       IN  IF r.ok THEN decode_homogeneous(Tail(rest), elem, Append(got, r.val), left)
           ELSE decode_homogeneous(Tail(rest), elem, got, Append(left, Head(rest)))

\* decode_heterogeneous: the union resolver on every child, in order
decode_heterogeneous(rest, candidates, got) ==
  IF rest = <<>> THEN Ok(got, <<>>)
  ELSE LET r == decode_union(Head(rest), candidates, 1, <<>>)
       IN  IF r.ok THEN decode_heterogeneous(Tail(rest), candidates, Append(got, r.val))
           ELSE r

RECURSIVE encode_record(_, _)
RECURSIVE EncodeFields(_, _)
RECURSIVE EncodeSeq(_, _)
RECURSIVE EncodeUnionSeq(_, _)

\* encoding a union value dispatches to its variant
encode_union(u, candidates) == encode_record(u.val, candidates[u.variant])

EncodeSeq(vals, elem) ==
  IF vals = <<>> THEN <<>>
  ELSE <<encode_record(Head(vals), elem)>> \o EncodeSeq(Tail(vals), elem)

EncodeUnionSeq(vals, candidates) ==
  IF vals = <<>> THEN <<>>
  ELSE <<encode_union(Head(vals), candidates)>> \o EncodeUnionSeq(Tail(vals), candidates)

\* the children one field contributes: none when it is suppressed
EncodeField(f, v) ==
  CASE f.kind = "positional" -> <<A(v)>>
    [] f.kind = "tuple"      -> <<L(<<A(f.key)>> \o v)>>
    [] f.kind = "option"     -> IF f.skip /\ v = <<>> THEN <<>> ELSE <<L(<<A(f.key)>> \o v[1])>>
    [] f.kind = "uuid"       -> IF f.skip /\ skip_uuid(v) THEN <<>>
                                ELSE <<L(<<A(f.key), A(UuidEncode(v))>>)>>
    [] f.kind = "record"     -> <<encode_record(v, f.elem)>>
    [] f.kind = "seq"        -> EncodeSeq(v, f.elem)
    [] f.kind = "union_seq"  -> EncodeUnionSeq(v, PCBContent)

EncodeFields(fields, val) ==
  IF fields = <<>> THEN <<>>
  ELSE EncodeField(Head(fields), val[Head(fields).name]) \o EncodeFields(Tail(fields), val)

\* encode_record(Record, schema): the tag, then the fields in schema order
encode_record(val, schema) ==
  L((IF Tag(schema) = "" THEN <<>> ELSE <<A(Tag(schema))>>)
      \o EncodeFields(Fields(schema), val))

(* ------------------------------ the inputs ------------------------------ *)

Numbers == {0, 40}

LayerValues ==
  {Layer(n, nm, t, u) : n \in Numbers, nm \in StringsUpTo(MaxStr), t \in LayerTypes,
                        u \in {<<>>} \cup {<<s>> : s \in StringsUpTo(MaxStr)}}

NumberAtoms == {<<"0">>, <<"4", "0">>, <<"+", "7">>, <<"x">>}
NameAtoms == {<<Quote, "a", Quote>>, <<"a">>, <<Quote, Quote>>}
TypeAtoms == {LayerType_fmt(t) : t \in LayerTypes}
               \cup {<<"S", "i", "g", "n", "a", "l">>, <<"f", "o", "o">>}
UserAtoms == {<<"b">>, <<Quote, "b", Quote>>}

LayerAtomLists ==
  {<<>>}
    \cup {<<n>> : n \in NumberAtoms}
    \cup {<<n, nm>> : n \in NumberAtoms, nm \in NameAtoms}
    \cup {<<n, nm, t>> : n \in NumberAtoms, nm \in NameAtoms, t \in TypeAtoms}
    \cup {<<n, nm, t, u>> : n \in NumberAtoms, nm \in NameAtoms, t \in TypeAtoms,
                            u \in UserAtoms}
    \cup {<<n, nm, t, u, u>> : n \in NumberAtoms, nm \in NameAtoms, t \in TypeAtoms,
                               u \in UserAtoms}

\* (0 "F.Cu" signal) and (40 "Dwgs.User" user "User.Drawings")
FCuText ==
  <<"(", "0", Space, Quote, "F", ".", "C", "u", Quote, Space,
    "s", "i", "g", "n", "a", "l", ")">>
DwgsUserText ==
  <<"(", "4", "0", Space, Quote, "D", "w", "g", "s", ".", "U", "s", "e", "r", Quote, Space,
    "u", "s", "e", "r", Space,
    Quote, "U", "s", "e", "r", ".", "D", "r", "a", "w", "i", "n", "g", "s", Quote, ")">>

\* each list written with single spaces, and again with spaces inside the
\* parentheses
LayerTexts ==
  {<<"(">> \o Join(atoms) \o <<")">> : atoms \in LayerAtomLists}
    \cup {<<"(", Space>> \o Join(atoms) \o <<Space, ")">> : atoms \in LayerAtomLists}
    \cup {FCuText, DwgsUserText}

Text(schema, t) == [kind |-> "text", schema |-> schema, t |-> t]
Value(schema, v) == [kind |-> "value", schema |-> schema, v |-> v]
Error(schema, e) == [kind |-> "error", schema |-> schema, e |-> e]
Tree(schema, n) == [kind |-> "tree", schema |-> schema, n |-> n]
Rec(schema, v) == [kind |-> "record", schema |-> schema, v |-> v]

RECURSIVE SeqsUpTo(_, _)
\* the sequences of at most n elements of S
SeqsUpTo(S, n) ==
  IF n = 0 THEN {<<>>}
  ELSE LET shorter == SeqsUpTo(S, n - 1)
       IN  shorter \cup {Append(q, x) : q \in shorter, x \in S}

Atom1(x) == <<A(x)>>
Opt(x) == {<<>>, <<Atom1(x)>>}
Xy(x, y) == L(<<A("xy"), A(x), A(y)>>)

SegmentValues ==
  {[start |-> <<A("1"), A("0")>>, end |-> <<A("2"), A("0")>>, width |-> Atom1("0.12"),
    layer |-> Atom1("\"F.Cu\""), net |-> Atom1(n), tstamp |-> u] :
     n \in {"0", "1"}, u \in {0, 1}}

CurveValues ==
  {[pts |-> <<Xy("1", "1"), Xy("1", "2"), Xy("2", "2"), Xy("2", "1")>>, layer |-> l,
    width |-> Atom1("0.12"), tstamp |-> u] : l \in Opt("\"F.Cu\""), u \in {0, 1}}

GeneralValues ==
  {[thickness |-> Atom1("0.89"), drawings |-> d, tracks |-> t, zones |-> <<>>,
    modules |-> <<>>, nets |-> n] : d \in Opt("1"), t \in Opt("2"), n \in Opt("3")}

VersionValues == {("0" :> "20211123"), ("0" :> "20221018")}

NetValues == {[number |-> n, name |-> nm] : n \in {"0", "1"}, nm \in {"\"+3V3\"", "\"\""}}

DerivedLayerValues ==
  {[number |-> "0", name |-> "\"F.Cu\"", layer_type |-> "signal", user |-> <<>>],
   [number |-> "31", name |-> "\"B.Cu\"", layer_type |-> "signal", user |-> <<>>],
   [number |-> "40", name |-> "\"Dwgs.User\"", layer_type |-> "user",
    user |-> <<Atom1("\"User.Drawings\"")>>]}

LayersListValues == {[layers |-> q] : q \in SeqsUpTo(DerivedLayerValues, MaxSeq)}

SymbolLibValues ==
  {[version |-> v, generator |-> Atom1("kicad_symbol_editor")] : v \in VersionValues}

CircleValues ==
  {[center |-> <<A("1"), A("1")>>, end |-> <<A("2"), A("2")>>, layer |-> <<>>,
    width |-> Atom1("0.12"), fill |-> f, tstamp |-> u] : f \in Opt("solid"), u \in {0, 1}}

\* the union values a drawn pcb_content is made of
ContentValues ==
  {[variant |-> 1, val |-> [layers |-> <<>>]],
   [variant |-> 2, val |-> [number |-> "1", name |-> "\"+3V3\""]],
   [variant |-> 3, val |-> CHOOSE c \in CircleValues : c.fill = <<>> /\ c.tstamp = 1]}

PCBValues ==
  {[version |-> ("0" :> "20221018"), generator |-> Atom1("pcbnew"),
    general |-> CHOOSE g \in GeneralValues : g.drawings = <<>> /\ g.tracks = <<>> /\ g.nets = <<>>,
    page |-> Atom1("A4"), title_block |-> <<L(<<A("title"), A("Minnow")>>)>>,
    pcb_content |-> q] : q \in SeqsUpTo(ContentValues, MaxSeq)}

ValuesOf(schema) ==
  CASE schema = "Segment"          -> SegmentValues
    [] schema = "Curve"            -> CurveValues
    [] schema = "General"          -> GeneralValues
    [] schema = "Version"          -> VersionValues
    [] schema = "SymbolLibVersion" -> VersionValues
    [] schema = "Net"              -> NetValues
    [] schema = "Layer"            -> DerivedLayerValues
    [] schema = "LayersList"       -> LayersListValues
    [] schema = "SymbolLib"        -> SymbolLibValues
    [] schema = "Circle"           -> CircleValues
    [] schema = "PCB"              -> PCBValues

\* children no schema declares
BogusNodes == {L(<<A("unexpected_field"), A("2")>>), A("extra")}

\* a tstamp child that spells out the nil identifier
NilTstamp == L(<<A("tstamp"), A(UuidEncode(NilUuid))>>)

InsertAt(q, i, x) == SubSeq(q, 1, i - 1) \o <<x>> \o SubSeq(q, i, Len(q))
SwapAt(q, i) == SubSeq(q, 1, i - 1) \o <<q[i + 1], q[i]>> \o SubSeq(q, i + 2, Len(q))

\* a written list and the lists one edit away from it: a child dropped, an
\* undeclared child or an explicit nil tstamp added, two neighbours swapped
Variants(n) ==
  LET q == n.list
  IN  {n} \cup {L(Without(q, i)) : i \in 1..Len(q)}
          \cup {L(InsertAt(q, i, x)) : i \in 2..(Len(q) + 1), x \in BogusNodes \cup {NilTstamp}}
          \cup {L(SwapAt(q, i)) : i \in 2..(Len(q) - 1)}

TreesOf(schema) == UNION {Variants(encode_record(v, schema)) : v \in ValuesOf(schema)}

ContentTrees ==
  UNION {Variants(encode_union(u, PCBContent)) : u \in ContentValues}
    \cup UNION {TreesOf(s) : s \in {"LayersList", "Net", "Circle"}}

(* ------------------------------ the machine ---------------------------- *)

Init ==
  /\ hist = <<>>
  /\ cur \in {Value("Layer", v) : v \in LayerValues}
               \cup {Text("Layer", t) : t \in LayerTexts}
               \cup UNION {{Rec(s, v) : v \in ValuesOf(s)} : s \in Schemas}
               \cup UNION {{Tree(s, n) : n \in TreesOf(s)} : s \in Schemas}
               \cup {Rec("PCBContent", u) : u \in ContentValues}
               \cup {Tree("PCBContent", n) : n \in ContentTrees}

\* Layer::from_str on the current text
LayerFromStr ==
  /\ Len(hist) < MaxSteps
  /\ cur.kind = "text" /\ cur.schema = "Layer"
  /\ LET r == Layer_from_str(cur.t)
     IN  cur' = IF r.ok THEN Value("Layer", r.val) ELSE Error("Layer", r.err)
  /\ hist' = Append(hist, cur)

\* Layer::to_string on the current value
LayerToString ==
  /\ Len(hist) < MaxSteps
  /\ cur.kind = "value" /\ cur.schema = "Layer"
  /\ cur' = Text("Layer", Layer_to_string(cur.v))
  /\ hist' = Append(hist, cur)

\* serde_sexpr::from_str::<T> for a record type T
Decode ==
  /\ Len(hist) < MaxSteps
  /\ cur.kind = "tree" /\ cur.schema \in Schemas
  /\ LET r == decode_record(cur.n, cur.schema)
     IN  cur' = IF r.ok THEN Rec(cur.schema, r.val)
                ELSE Error(cur.schema, [err |-> r.err, reasons |-> r.reasons])
  /\ hist' = Append(hist, cur)

\* serde_sexpr::to_string for a record value
Encode ==
  /\ Len(hist) < MaxSteps
  /\ cur.kind = "record" /\ cur.schema \in Schemas
  /\ cur' = Tree(cur.schema, encode_record(cur.v, cur.schema))
  /\ hist' = Append(hist, cur)

\* serde_sexpr::from_str::<PCBContent>
DecodeUnion ==
  /\ Len(hist) < MaxSteps
  /\ cur.kind = "tree" /\ cur.schema = "PCBContent"
  /\ LET r == decode_union(cur.n, PCBContent, 1, <<>>)
     IN  cur' = IF r.ok THEN Rec("PCBContent", r.val)
                ELSE Error("PCBContent", [err |-> r.err, reasons |-> r.reasons])
  /\ hist' = Append(hist, cur)

\* serde_sexpr::to_string for a PCBContent value
EncodeUnion ==
  /\ Len(hist) < MaxSteps
  /\ cur.kind = "record" /\ cur.schema = "PCBContent"
  /\ cur' = Tree("PCBContent", encode_union(cur.v, PCBContent))
  /\ hist' = Append(hist, cur)

Next ==
  \/ LayerFromStr
  \/ LayerToString
  \/ Decode
  \/ Encode
  \/ DecodeUnion
  \/ EncodeUnion

Spec == Init /\ [][Next]_vars

(* ------------------------------ properties ------------------------------ *)

\* every artefact so far, the input first and the current one last
Trace == Append(hist, cur)

\* an atom without the quotes that surround it
Unquote(atom) ==
  IF Len(atom) >= 2 /\ atom[1] = Quote /\ atom[Len(atom)] = Quote
  THEN SubSeq(atom, 2, Len(atom) - 1)
  ELSE atom

Spellings == {LayerType_fmt(t) : t \in LayerTypes}
TypeNamed(atom) == CHOOSE t \in LayerTypes : LayerType_fmt(t) = atom

\* the Layer text at position i of the trace is a list of n atoms led by a number
LayerListAt(i, n) ==
  /\ Len(Trace) > i
  /\ Trace[i].kind = "text"
  /\ IsFlatList(Trace[i].t)
  /\ Len(Atoms(Trace[i].t)) = n
  /\ IsU32(Atoms(Trace[i].t)[1])

\* C1: value round trip. Encoding a value and decoding the result gives the
\* value back: for every Layer value Layer::from_str(v.to_string()) is Ok(v),
\* and for every record value decode(encode(v)) = v.
C1_ValueRoundTrip ==
  (Len(Trace) >= 3 /\ Trace[1].kind \in {"value", "record"}) => Trace[3] = Trace[1]

\* C2: the tagless positional form. A list of three atoms decodes to that
\* number, the name without its surrounding quotes, the type the symbol names
\* and user = None; a list of four atoms to the same three fields and
\* user = Some(the fourth atom without its surrounding quotes).
C2_PositionalLayer ==
  \A i \in 1..Len(hist) :
    LET atoms == Atoms(Trace[i].t)
    IN  /\ (LayerListAt(i, 3) /\ atoms[3] \in Spellings) =>
             Trace[i + 1] = Value("Layer", Layer(ParseU32(atoms[1]), Unquote(atoms[2]),
                                                 TypeNamed(atoms[3]), <<>>))
        /\ (LayerListAt(i, 4) /\ atoms[3] \in Spellings) =>
             Trace[i + 1] = Value("Layer", Layer(ParseU32(atoms[1]), Unquote(atoms[2]),
                                                 TypeNamed(atoms[3]), <<Unquote(atoms[4])>>))

C10_EveryAttemptReported ==
  \A i \in 1..Len(hist) :
    /\ (Trace[i].kind = "text" /\ Trace[i + 1].kind = "error") =>
         \A arity \in {3, 4} : \E k \in 1..Len(Trace[i + 1].e) : Trace[i + 1].e[k].arity = arity
    /\ (Trace[i].kind = "tree" /\ Trace[i].schema = "PCBContent"
          /\ Trace[i + 1].kind = "error") =>
         \A c \in 1..Len(PCBContent) :
           \E k \in 1..Len(Trace[i + 1].e.reasons) : Trace[i + 1].e.reasons[k].variant = c


\* the tags of the children of a written record, after its own tag
ChildTags(n) == [i \in 1..(Len(n.list) - 1) |-> TagOf(n.list[i + 1])]

HasKey(n, key) == \E i \in 2..Len(n.list) : IsList(n.list[i]) /\ TagOf(n.list[i]) = key

\* the segment and fp_curve test inputs of the sources, tstamp spelled out
SegmentTestInput ==
  L(<<A("segment"), L(<<A("start"), A("1"), A("0")>>), L(<<A("end"), A("2"), A("0")>>),
      L(<<A("width"), A("0.12")>>), L(<<A("layer"), A("\"F.Cu\"")>>),
      L(<<A("net"), A("1")>>),
      L(<<A("tstamp"), A("\"00000000-0000-0000-0000-000000000000\"")>>)>>)
CurveTestInput ==
  L(<<A("fp_curve"),
      L(<<A("pts"), Xy("1", "1"), Xy("1", "2"), Xy("2", "2"), Xy("2", "1")>>),
      L(<<A("width"), A("0.12")>>),
      L(<<A("tstamp"), A("\"00000000-0000-0000-0000-000000000000\"")>>)>>)

SegmentKeys == <<"start", "end", "width", "layer", "net", "tstamp">>
CurveKeys == <<"pts", "layer", "width", "tstamp">>
KeysOf(schema) == IF schema = "Segment" THEN SegmentKeys ELSE CurveKeys

\* the children of a written record are keyed fields in declaration order
InDeclaredOrder(n, keys) ==
  \E pos \in [1..(Len(n.list) - 1) -> 1..Len(keys)] :
    /\ \A i \in DOMAIN pos : IsList(n.list[i + 1]) /\ ChildTags(n)[i] = keys[pos[i]]
    /\ \A i, j \in DOMAIN pos : i < j => pos[i] < pos[j]

IsNilTstamp(k) ==
  k = L(<<A("tstamp"), A("\"00000000-0000-0000-0000-000000000000\"")>>)

\* a Layer text as Layer::to_string writes it: single spaces, the number in
\* decimal, the name in quotes, a declared spelling of the layer type
CanonicalLayerText(t) ==
  /\ IsFlatList(t)
  /\ Len(Atoms(t)) \in {3, 4}
  /\ t = <<"(">> \o Join(Atoms(t)) \o <<")">>
  /\ IsU32(Atoms(t)[1]) /\ FormatU32(ParseU32(Atoms(t)[1])) = Atoms(t)[1]
  /\ Unquote(Atoms(t)[2]) # Atoms(t)[2]
  /\ \A k \in 1..Len(Unquote(Atoms(t)[2])) : Unquote(Atoms(t)[2])[k] # Quote
  /\ Atoms(t)[3] \in Spellings

NilSuppressed == {<<"Segment", "tstamp">>, <<"Curve", "tstamp">>}
NoneSuppressed ==
  {<<"Curve", "layer">>, <<"General", "drawings">>, <<"General", "tracks">>,
   <<"General", "zones">>, <<"General", "modules">>, <<"General", "nets">>}

\* the text ends with the layer type and the closing parenthesis
EndsWithType(t, l) ==
  LET tail == LayerType_fmt(l.layer_type) \o <<")">>
  IN  Len(t) > Len(tail) /\ SubSeq(t, Len(t) - Len(tail) + 1, Len(t)) = tail

DeclaredCandidates == <<"LayersList", "Net", "Circle">>

C7_StrictByDefault ==
  \A i \in 1..Len(hist) :
    (/\ Trace[i].kind = "tree" /\ Trace[i].schema \in Schemas
     /\ \E k \in 2..Len(Trace[i].n.list) : Trace[i].n.list[k] \in BogusNodes)
      => (Trace[i + 1].kind = "error" /\ Trace[i + 1].e.err = "UnknownField")

NoSpace(q) == \A k \in 1..Len(q) : q[k] # Space

\* C8: encoding emits the fields in declaration order. A Layer is written as
\* number, quoted name, layer type and then user, a Segment as start, end,
\* width, layer, net and then tstamp, whatever the values are.
C8_DeclarationOrder ==
  \A i \in 1..Len(hist) :
    /\ (/\ Trace[i].kind = "value" /\ Trace[i + 1].kind = "text"
        /\ NoSpace(Trace[i].v.name)
        /\ Trace[i].v.user # <<>> => (Trace[i].v.user[1] # <<>> /\ NoSpace(Trace[i].v.user[1])))
         => Atoms(Trace[i + 1].t) =
              <<FormatU32(Trace[i].v.number), <<Quote>> \o Trace[i].v.name \o <<Quote>>,
                LayerType_fmt(Trace[i].v.layer_type)>> \o Trace[i].v.user
    /\ (Trace[i].kind = "record" /\ Trace[i].schema = "Segment"
          /\ Trace[i + 1].kind = "tree")
         => /\ TagOf(Trace[i + 1].n) = "segment"
            /\ ChildTags(Trace[i + 1].n) =
                 IF Trace[i].v.tstamp = NilUuid
                 THEN <<"start", "end", "width", "layer", "net">>
                 ELSE <<"start", "end", "width", "layer", "net", "tstamp">>

\* a Layer with a user and a quote in its name has been written
C8_Witness ==
  /\ Len(Trace) >= 2
  /\ Trace[1].kind = "value"
  /\ Trace[1].v.user = <<<<"a">>>>
  /\ Trace[1].v.name = <<"a", Quote>>
  /\ Trace[2].kind = "text"
  /\ Len(Atoms(Trace[2].t)) = 4

FixedPCBKeys == {"version", "generator", "general", "paper", "title_block"}

\* C9: sequence order is preserved. LayersList.layers and PCB.pcb_content
\* decode to the decodes of their children in document order, encode to
\* their elements in order, none dropped, doubled or moved, and so come back
\* unchanged from encoding and decoding.
C9_SequenceOrder ==
  \A i \in 1..Len(hist) :
    /\ (Trace[i].kind = "tree" /\ Trace[i].schema = "LayersList"
          /\ Trace[i + 1].kind = "record") =>
         LET kids == SelectSeq(Tail(Trace[i].n.list),
                               LAMBDA k : decode_record(k, "Layer").ok)
         IN  Trace[i + 1].v.layers =
               [j \in 1..Len(kids) |-> decode_record(kids[j], "Layer").val]
    /\ (Trace[i].kind = "tree" /\ Trace[i].schema = "PCB"
          /\ Trace[i + 1].kind = "record") =>
         LET kids == SelectSeq(Tail(Trace[i].n.list),
                               LAMBDA k : TagOf(k) \notin FixedPCBKeys)
         IN  Trace[i + 1].v.pcb_content =
               [j \in 1..Len(kids) |->
                  decode_union(kids[j], DeclaredCandidates, 1, <<>>).val]
    /\ (Trace[i].kind = "record" /\ Trace[i].schema = "LayersList"
          /\ Trace[i + 1].kind = "tree") =>
         Tail(Trace[i + 1].n.list) =
           [j \in 1..Len(Trace[i].v.layers) |-> encode_record(Trace[i].v.layers[j], "Layer")]
    /\ (Trace[i].kind = "record" /\ Trace[i].schema = "PCB"
          /\ Trace[i + 1].kind = "tree") =>
         SelectSeq(Tail(Trace[i + 1].n.list), LAMBDA k : TagOf(k) \notin FixedPCBKeys) =
           [j \in 1..Len(Trace[i].v.pcb_content) |->
              encode_record(Trace[i].v.pcb_content[j].val,
                            DeclaredCandidates[Trace[i].v.pcb_content[j].variant])]
    /\ (/\ i > 1
        /\ Trace[i - 1].kind = "record" /\ Trace[i - 1].schema \in {"LayersList", "PCB"}
        /\ Trace[i].kind = "tree") => Trace[i + 1] = Trace[i - 1]

\* a list of two different layers has been written and read back
C9_Witness ==
  /\ Len(Trace) >= 3
  /\ Trace[1].kind = "record" /\ Trace[1].schema = "LayersList"
  /\ Len(Trace[1].v.layers) = 2
  /\ Trace[1].v.layers[1] # Trace[1].v.layers[2]
  /\ Trace[3].kind = "record"
  /\ Trace[3].v.layers = Trace[1].v.layers

====
